---------------------------- MODULE Spec2Model ----------------------------
(***************************************************************************)
(* Model of quantum_randomness_demo.py: the collection loop                *)
(* run_multiple_experiments, the statistical validator analyze_results,    *)
(* visualize_randomness and main.                                          *)
(*                                                                         *)
(* Specifications (they share the actions):                                *)
(*   Spec          - the script: main collects 10 samples, analyses them   *)
(*                   and plots them;                                       *)
(*   SpecValidator - one direct call of analyze_results on an arbitrary    *)
(*                   series drawn from a bounded set.                      *)
(*                                                                         *)
(* Numbers.  Counts are Python ints.  The floats of analyze_results are    *)
(* modelled by exact reals: a mean sum/len is the rational                 *)
(* [num |-> sum, den |-> len], and x ** 0.5 is the surd                    *)
(* [coef |-> 1, rad |-> x] (coef * sqrt(rad)).  Comparisons are decided by *)
(* cross-multiplying or squaring.  The rounding of IEEE doubles is not     *)
(* modelled; it cannot change a comparison of an int with 3*sqrt(250),     *)
(* since 47^2 < 9*250 < 48^2.                                              *)
(***************************************************************************)
EXTENDS Integers, Sequences, FiniteSets, TLC

VARIABLES
    pc,        \* position of the running code
    ret,       \* who called analyze_results: "main" or "caller"
    args,      \* keyword arguments passed to analyze_results besides results
    results,   \* the series: the list built by run_multiple_experiments
    run,       \* the loop variable of run_multiple_experiments (runs done)
    counts,    \* the simulator's last get_counts() dictionary
    locals,    \* local variables of analyze_results, by name, once assigned
    figure,    \* data handed to the plot by visualize_randomness
    output,    \* lines printed so far (by kind)
    error,     \* exception raised out of analyze_results, "none" if none
    other,     \* a second, concurrent call of analyze_results: its position,
               \* series, locals and exception
    circuit,   \* the instructions of the circuit a script has built
    psi,       \* the amplitudes of the two-qubit state the circuit prepares
    caught     \* the failures an except clause has absorbed, by place

\* the variables no step of quantum_randomness_demo.py touches
extraVars == <<other, circuit, psi, caught>>

vars == <<pc, ret, args, results, run, counts, locals, figure, output, error,
          other, circuit, psi, caught>>

--------------------------------------------------------------------------
(* Program constants *)

\* for run in range(10)
NumRuns == 10

\* simulator.run(circuit, shots=1000)
Shots == 1000

\* the literal 1000 in expected_std = (1000 * 0.5 * 0.5) ** 0.5
AssumedShots == 1000

\* the literal 3 in three_sigma = 3 * expected_std
SigmaFactor == 3

\* the literal 500 in abs(count - 500) <= three_sigma
ExpectedCount == 500

\* the literal 0.5, as a rational
Half == [num |-> 1, den |-> 2]

\* the four outcome labels of the two-bit classical register
Labels == {"00", "11", "01", "10"}

--------------------------------------------------------------------------
(* Model bounds *)

\* longest series passed to analyze_results by a direct caller
MaxLen == 3

--------------------------------------------------------------------------
(* Python helpers *)

\* no second call of analyze_results
NoCall == [pc |-> "idle", results |-> <<>>, locals |-> <<>>, error |-> "none"]

\* no circuit built, no state prepared, nothing absorbed
ExtraIdle ==
    /\ other = NoCall
    /\ circuit = <<>>
    /\ psi = <<>>
    /\ caught = {}

\* the empty dictionary / an empty frame
EmptyDict == [k \in {} |-> 0]

\* a dictionary with the four labels
Sample4(a, b, c, d) == ("00" :> a) @@ ("11" :> b) @@ ("01" :> c) @@ ("10" :> d)

\* dict.get(key, default)
Get(d, key, default) == IF key \in DOMAIN d THEN d[key] ELSE default

\* the builtin sum over a list
RECURSIVE Sum(_)
Sum(s) == IF s = <<>> THEN 0 ELSE Head(s) + Sum(Tail(s))

\* the builtin min over a non-empty list
RECURSIVE Min(_)
Min(s) == IF Len(s) = 1 THEN s[1]
          ELSE LET m == Min(Tail(s)) IN IF s[1] <= m THEN s[1] ELSE m

\* the builtin max over a non-empty list
RECURSIVE Max(_)
Max(s) == IF Len(s) = 1 THEN s[1]
          ELSE LET m == Max(Tail(s)) IN IF s[1] >= m THEN s[1] ELSE m

\* the builtin abs
Abs(x) == IF x < 0 THEN -x ELSE x

\* Mean with the division left out: sum(xs)
MeanUndivided(xs) == [num |-> Sum(xs), den |-> 1]

\* Mean dividing by len(xs) - 1
MeanLenMinusOne(xs) == [num |-> Sum(xs), den |-> Len(xs) - 1]

\* sum(xs) / len(xs): true division, as an exact rational (len(xs) > 0)
Mean(xs) == [num |-> Sum(xs), den |-> Len(xs)]

--------------------------------------------------------------------------
(* run_multiple_experiments *)

\* What job.result().get_counts() can return for 1000 shots: a dictionary of
\* the observed labels only, whose counts sum to the shots.
SimOutcomes ==
    { ("00" :> 500) @@ ("11" :> 500),
      ("00" :> 1000),
      ("00" :> 452) @@ ("11" :> 546) @@ ("10" :> 2) }

\* MakeSample with the '11' entry read from the '00' key
MakeSampleCopyPaste(c) ==
    Sample4(Get(c, "00", 0), Get(c, "00", 0), Get(c, "01", 0), Get(c, "10", 0))

\* the dictionary appended to results for one run
MakeSample(c) ==
    Sample4(Get(c, "00", 0), Get(c, "11", 0), Get(c, "01", 0), Get(c, "10", 0))

\* RunLine testing count_01 only
RunLineOnly01(s) == IF s["01"] > 0 THEN "run_unexpected" ELSE "run_perfect"

\* the line printed for one run
RunLine(s) == IF s["01"] > 0 \/ s["10"] > 0 THEN "run_unexpected" ELSE "run_perfect"

\* main calls run_multiple_experiments, which prints its banner and the circuit
Start ==
    /\ pc = "main"
    /\ pc' = "loop"
    /\ results' = <<>>
    /\ run' = 0
    /\ output' = Append(output, "banner")
    /\ UNCHANGED <<ret, args, counts, locals, figure, error, extraVars>>

\* one iteration of the loop: simulate, read the counts, append, report
RunExperiment ==
    /\ pc = "loop"
    /\ run < NumRuns
    /\ \E c \in SimOutcomes :
          /\ counts' = c
          /\ results' = Append(results, MakeSample(c))
          /\ output' = Append(output, RunLine(MakeSample(c)))
    /\ run' = run + 1
    /\ UNCHANGED <<pc, ret, args, locals, figure, error, extraVars>>

\* CollectReturn with the return inside the loop body: it returns after a run
CollectReturnInsideLoop ==
    /\ pc = "loop"
    /\ run >= 1
    /\ pc' = "analyze_call"
    /\ UNCHANGED <<ret, args, results, run, counts, locals, figure, output, error, extraVars>>

\* CollectReturn in a main that goes straight to visualize_randomness
CollectReturnSkipsAnalysis ==
    /\ pc = "loop"
    /\ run = NumRuns
    /\ pc' = "visualize"
    /\ UNCHANGED <<ret, args, results, run, counts, locals, figure, output, error, extraVars>>

\* the loop is exhausted: return results; main goes on to analyze_results(results)
CollectReturn ==
    /\ pc = "loop"
    /\ run = NumRuns
    /\ pc' = "analyze_call"
    /\ UNCHANGED <<ret, args, results, run, counts, locals, figure, output, error, extraVars>>

--------------------------------------------------------------------------
(* analyze_results *)

\* AllOf reading the '00' key whatever the label
AllOfFirstLabel(res, label) == [i \in 1..Len(res) |-> res[i]["00"]]

\* [r[label] for r in results]
AllOf(res, label) == [i \in 1..Len(res) |-> res[i][label]]

\* AllMixed leaving out the '10' counts
AllMixedOnly01(res) == [i \in 1..Len(res) |-> res[i]["01"]]

\* [r['01'] + r['10'] for r in results]
AllMixed(res) == [i \in 1..Len(res) |-> res[i]["01"] + res[i]["10"]]

\* 1000 * 0.5 * 0.5, which is the exact value 250.0
Variance == (AssumedShots * Half.num * Half.num) \div (Half.den * Half.den)

\* expected_std = (1000 * 0.5 * 0.5) ** 0.5
ExpectedStd == [coef |-> 1, rad |-> Variance]

\* ThreeSigma with a factor of 2
TwoSigma(std) == [coef |-> 2 * std.coef, rad |-> std.rad]

\* three_sigma = 3 * expected_std
ThreeSigma(std) == [coef |-> SigmaFactor * std.coef, rad |-> std.rad]

\* WithinSigma without the abs: count - 500 <= three_sigma
WithinSigmaNoAbs(count, ts) ==
    \/ count - ExpectedCount <= 0
    \/ (count - ExpectedCount) * (count - ExpectedCount) <= ts.coef * ts.coef * ts.rad

\* abs(count - 500) <= three_sigma, both sides non-negative: compare squares
WithinSigma(count, ts) ==
    Abs(count - ExpectedCount) * Abs(count - ExpectedCount) <= ts.coef * ts.coef * ts.rad

\* WithinRange as a loop that keeps only the last comparison
WithinRangeLastOnly(all00, ts) == WithinSigma(all00[Len(all00)], ts)

\* all(abs(count - 500) <= three_sigma for count in all_00)
WithinRange(all00, ts) == \A i \in 1..Len(all00) : WithinSigma(all00[i], ts)

\* the three lists built first
StatLists(res) ==
    ("all_00" :> AllOf(res, "00")) @@ ("all_11" :> AllOf(res, "11"))
        @@ ("all_mixed" :> AllMixed(res))

\* the three averages
StatMeans(l) ==
    ("avg_00" :> Mean(l["all_00"])) @@ ("avg_11" :> Mean(l["all_11"]))
        @@ ("avg_mixed" :> Mean(l["all_mixed"]))

\* StatRanges with min and max exchanged
StatRangesSwapped(l) ==
    ("min_00" :> Max(l["all_00"])) @@ ("max_00" :> Min(l["all_00"]))
        @@ ("min_11" :> Max(l["all_11"])) @@ ("max_11" :> Min(l["all_11"]))

\* min_00, max_00 = min(all_00), max(all_00) and the same for all_11
StatRanges(l) ==
    ("min_00" :> Min(l["all_00"])) @@ ("max_00" :> Max(l["all_00"]))
        @@ ("min_11" :> Min(l["all_11"])) @@ ("max_11" :> Max(l["all_11"]))

\* SigmaLocals with the check applied to both good labels
SigmaLocalsBothLabels(l) ==
    ("expected_std" :> ExpectedStd) @@ ("three_sigma" :> ThreeSigma(ExpectedStd))
        @@ ("within_range" :> (WithinRange(l["all_00"], ThreeSigma(ExpectedStd))
                                /\ WithinRange(l["all_11"], ThreeSigma(ExpectedStd))))

\* the locals of the validation part
SigmaLocals(l) ==
    ("expected_std" :> ExpectedStd) @@ ("three_sigma" :> ThreeSigma(ExpectedStd))
        @@ ("within_range" :> WithinRange(l["all_00"], ThreeSigma(ExpectedStd)))

\* every local of a call that runs to its last line
FullLocals(res) ==
    LET l == StatLists(res)
    IN  l @@ StatMeans(l) @@ StatRanges(l) @@ SigmaLocals(l)

\* The call binds its arguments to the one parameter, results: any further
\* argument is a TypeError raised before the body runs.
AnalyzeCall ==
    /\ pc = "analyze_call"
    /\ locals' = EmptyDict
    /\ IF DOMAIN args # {}
         THEN /\ error' = "TypeError"
              /\ pc' = "raised"
         ELSE /\ error' = error
              /\ pc' = "a_header"
    /\ UNCHANGED <<ret, args, results, run, counts, figure, output, extraVars>>

\* the STATISTICAL ANALYSIS banner
AnalyzeHeader ==
    /\ pc = "a_header"
    /\ output' = Append(output, "analysis_header")
    /\ pc' = "a_stats"
    /\ UNCHANGED <<ret, args, results, run, counts, locals, figure, error, extraVars>>

\* the lists, then the averages (a division by len, which is zero for an
\* empty series), then the ranges
AnalyzeStats ==
    /\ pc = "a_stats"
    /\ IF Len(results) = 0
         THEN /\ locals' = StatLists(results)
              /\ error' = "ZeroDivisionError"
              /\ pc' = "raised"
         ELSE /\ locals' = StatLists(results) @@ StatMeans(StatLists(results))
                               @@ StatRanges(StatLists(results))
              /\ error' = error
              /\ pc' = "a_report"
    /\ UNCHANGED <<ret, args, results, run, counts, figure, output, extraVars>>

\* the STATISTICS OVER n RUNS block and the WHAT THIS SHOWS block
AnalyzeReport ==
    /\ pc = "a_report"
    /\ output' = output \o <<"stats_00", "stats_11", "stats_mixed", "what_this_shows">>
    /\ pc' = "a_validate"
    /\ UNCHANGED <<ret, args, results, run, counts, locals, figure, error, extraVars>>

\* the 3-sigma validation, its report, and the return to the caller
AnalyzeValidate ==
    /\ pc = "a_validate"
    /\ locals' = locals @@ SigmaLocals(locals)
    /\ output' = output \o <<"validation",
                             IF SigmaLocals(locals)["within_range"]
                               THEN "verdict_yes" ELSE "verdict_no">>
    /\ pc' = IF ret = "main" THEN "visualize" ELSE "returned"
    /\ UNCHANGED <<ret, args, results, run, counts, figure, error, extraVars>>

--------------------------------------------------------------------------
(* visualize_randomness and the rest of main *)

\* runs, counts_00 and counts_11 as plotted
PlotData(res) ==
    ("runs" :> [i \in 1..Len(res) |-> i]) @@ ("counts_00" :> AllOf(res, "00"))
        @@ ("counts_11" :> AllOf(res, "11"))

\* Visualize building its lists by popping the samples off the series
VisualizePopsSeries ==
    /\ pc = "visualize"
    /\ figure' = PlotData(results)
    /\ results' = <<>>
    /\ output' = Append(output, "creating_visualization")
    /\ pc' = "insights"
    /\ UNCHANGED <<ret, args, run, counts, locals, error, extraVars>>

\* main announces the visualization and calls visualize_randomness(results)
Visualize ==
    /\ pc = "visualize"
    /\ figure' = PlotData(results)
    /\ output' = Append(output, "creating_visualization")
    /\ pc' = "insights"
    /\ UNCHANGED <<ret, args, results, run, counts, locals, error, extraVars>>

\* the KEY INSIGHTS text and the closing line
Insights ==
    /\ pc = "insights"
    /\ output' = output \o <<"key_insights", "saved">>
    /\ pc' = "done"
    /\ UNCHANGED <<ret, args, results, run, counts, locals, figure, error, extraVars>>

--------------------------------------------------------------------------
(* The script *)

Init ==
    /\ pc = "main"
    /\ ret = "main"
    /\ args = EmptyDict
    /\ results = <<>>
    /\ run = 0
    /\ counts = EmptyDict
    /\ locals = EmptyDict
    /\ figure = EmptyDict
    /\ output = <<>>
    /\ error = "none"
    /\ ExtraIdle

Next ==
    \/ Start
    \/ RunExperiment
    \/ CollectReturn
    \/ AnalyzeCall
    \/ AnalyzeHeader
    \/ AnalyzeStats
    \/ AnalyzeReport
    \/ AnalyzeValidate
    \/ Visualize
    \/ Insights

Spec == Init /\ [][Next]_vars

--------------------------------------------------------------------------
(* A direct call of analyze_results *)

\* samples a caller may pass: series as the simulator produces them (summing
\* to the shots), and two that do not sum to the shots
CallerSamples ==
    { Sample4(500, 500, 0, 0), Sample4(453, 547, 0, 0), Sample4(547, 453, 0, 0),
      Sample4(452, 548, 0, 0), Sample4(548, 452, 0, 0), Sample4(1000, 0, 0, 0),
      Sample4(500, 499, 1, 0), Sample4(500, 0, 250, 250),
      Sample4(0, 0, 0, 0), Sample4(600, 600, 0, 0) }

\* the series of at most MaxLen samples
CallerSeries == UNION { [1..n -> CallerSamples] : n \in 0..MaxLen }

\* keyword arguments a caller may add to the call
CallerArgs ==
    LET trials == { ("trials_per_sample" :> t) : t \in {0, 1000} }
        ratios == { ("expected_ratio" :> r) :
                        r \in { Half, [num |-> 3, den |-> 2] } }
    IN  {EmptyDict} \cup trials \cup ratios
            \cup { t @@ r : t \in trials, r \in ratios }

InitValidator ==
    /\ pc = "analyze_call"
    /\ ret = "caller"
    /\ args \in CallerArgs
    /\ results \in CallerSeries
    /\ run = 0
    /\ counts = EmptyDict
    /\ locals = EmptyDict
    /\ figure = EmptyDict
    /\ output = <<>>
    /\ error = "none"
    /\ ExtraIdle

NextValidator ==
    \/ AnalyzeCall
    \/ AnalyzeHeader
    \/ AnalyzeStats
    \/ AnalyzeReport
    \/ AnalyzeValidate

SpecValidator == InitValidator /\ [][NextValidator]_vars

--------------------------------------------------------------------------
(* Two concurrent calls of analyze_results *)

\* Two callers (threads) each call analyze_results on a series of their
\* own.  The first call is the one of the actions above; the second runs
\* the same code on the record other.  Both print to the same stdout.

\* longest series of a concurrent call
MaxConc == 2

\* samples of the concurrent callers: two with the same '00' count and
\* different other counts, one with a '00' count outside the 3-sigma interval
ConcSamples ==
    { Sample4(500, 500, 0, 0), Sample4(500, 0, 250, 250), Sample4(452, 548, 0, 0) }

\* the series of the concurrent callers
ConcSeries == UNION { [1..n -> ConcSamples] : n \in 0..MaxConc }

\* the second call binds its one argument
OtherCall ==
    /\ other.pc = "analyze_call"
    /\ other' = [other EXCEPT !.pc = "a_header", !.locals = EmptyDict]
    /\ UNCHANGED <<pc, ret, args, results, run, counts, locals, figure, output,
                   error, circuit, psi, caught>>

\* the banner of the second call
OtherHeader ==
    /\ other.pc = "a_header"
    /\ output' = Append(output, "analysis_header")
    /\ other' = [other EXCEPT !.pc = "a_stats"]
    /\ UNCHANGED <<pc, ret, args, results, run, counts, locals, figure,
                   error, circuit, psi, caught>>

\* OtherStats with the three lists kept in module-level variables, which
\* the first call has filled
OtherStatsSharedLists ==
    /\ other.pc = "a_stats"
    /\ LET l == IF "all_00" \in DOMAIN locals
                  THEN StatLists(results) ELSE StatLists(other.results)
       IN  other' =
             IF Len(l["all_00"]) = 0
               THEN [other EXCEPT !.locals = l,
                                  !.error = "ZeroDivisionError", !.pc = "raised"]
               ELSE [other EXCEPT !.locals = l @@ StatMeans(l) @@ StatRanges(l),
                                  !.pc = "a_report"]
    /\ UNCHANGED <<pc, ret, args, results, run, counts, locals, figure, output,
                   error, circuit, psi, caught>>

\* the lists, averages and ranges of the second call
OtherStats ==
    /\ other.pc = "a_stats"
    /\ other' =
          IF Len(other.results) = 0
            THEN [other EXCEPT !.locals = StatLists(other.results),
                               !.error = "ZeroDivisionError", !.pc = "raised"]
            ELSE [other EXCEPT !.locals = StatLists(other.results)
                                             @@ StatMeans(StatLists(other.results))
                                             @@ StatRanges(StatLists(other.results)),
                               !.pc = "a_report"]
    /\ UNCHANGED <<pc, ret, args, results, run, counts, locals, figure, output,
                   error, circuit, psi, caught>>

\* the statistics report of the second call
OtherReport ==
    /\ other.pc = "a_report"
    /\ output' = output \o <<"stats_00", "stats_11", "stats_mixed", "what_this_shows">>
    /\ other' = [other EXCEPT !.pc = "a_validate"]
    /\ UNCHANGED <<pc, ret, args, results, run, counts, locals, figure,
                   error, circuit, psi, caught>>

\* the 3-sigma validation of the second call, and its return
OtherValidate ==
    /\ other.pc = "a_validate"
    /\ output' = output \o <<"validation",
                             IF SigmaLocals(other.locals)["within_range"]
                               THEN "verdict_yes" ELSE "verdict_no">>
    /\ other' = [other EXCEPT !.locals = other.locals @@ SigmaLocals(other.locals),
                              !.pc = "returned"]
    /\ UNCHANGED <<pc, ret, args, results, run, counts, locals, figure,
                   error, circuit, psi, caught>>

InitConcurrent ==
    /\ pc = "analyze_call"
    /\ ret = "caller"
    /\ args = EmptyDict
    /\ results \in ConcSeries
    /\ run = 0
    /\ counts = EmptyDict
    /\ locals = EmptyDict
    /\ figure = EmptyDict
    /\ output = <<>>
    /\ error = "none"
    /\ \E s \in ConcSeries :
          other = [pc |-> "analyze_call", results |-> s, locals |-> EmptyDict,
                   error |-> "none"]
    /\ circuit = <<>>
    /\ psi = <<>>
    /\ caught = {}

NextConcurrent ==
    \/ AnalyzeCall
    \/ AnalyzeHeader
    \/ AnalyzeStats
    \/ AnalyzeReport
    \/ AnalyzeValidate
    \/ OtherCall
    \/ OtherHeader
    \/ OtherStats
    \/ OtherReport
    \/ OtherValidate

SpecConcurrent == InitConcurrent /\ [][NextConcurrent]_vars

--------------------------------------------------------------------------
(* Circuits and their state vectors *)

\* An instruction is a record of the gate and the qubits it acts on, a
\* circuit the sequence of the instructions in the order they were added.
\* A state vector holds, for each label, an integer amplitude over the
\* common denominator sqrt(2)^k, and the number of instructions applied.
\* A label names the bits as qiskit prints them: bit 1 first, bit 0 last,
\* and measure(qreg, creg) stores qubit i in bit i.

Ins(gate, qubits) == [gate |-> gate, qubits |-> qubits]

\* single_circuit_demo.create_bell_state_circuit
BellStateCircuit ==
    << Ins("barrier", <<0, 1>>), Ins("h", <<0>>), Ins("barrier", <<0, 1>>),
       Ins("cx", <<0, 1>>), Ins("barrier", <<0, 1>>), Ins("measure", <<0, 1>>) >>

\* visual_quantum_demo.create_beautiful_bell_circuit
BeautifulBellCircuit ==
    << Ins("barrier", <<0, 1>>), Ins("h", <<0>>), Ins("cx", <<0, 1>>),
       Ins("barrier", <<0, 1>>), Ins("measure", <<0, 1>>) >>

\* quantum_randomness_demo.create_bell_circuit
BellCircuit ==
    << Ins("h", <<0>>), Ins("cx", <<0, 1>>), Ins("measure", <<0, 1>>) >>

\* simple_quantum_demo.create_bell_state_circuit
SimpleBellCircuit ==
    << Ins("barrier", <<0, 1>>), Ins("h", <<0>>), Ins("cx", <<0, 1>>),
       Ins("barrier", <<0, 1>>), Ins("measure", <<0, 1>>) >>

\* the value of qubit q in a label
Bit(label, q) ==
    IF q = 0 THEN (IF label \in {"01", "11"} THEN 1 ELSE 0)
             ELSE (IF label \in {"10", "11"} THEN 1 ELSE 0)

\* the label of the two bits
LabelOf(b1, b0) ==
    IF b1 = 0 THEN (IF b0 = 0 THEN "00" ELSE "01")
              ELSE (IF b0 = 0 THEN "10" ELSE "11")

\* the label with qubit q set to b
WithBit(label, q, b) ==
    IF q = 0 THEN LabelOf(Bit(label, 1), b) ELSE LabelOf(b, Bit(label, 0))

\* |00>, before any instruction
Psi0 == [amp |-> [l \in Labels |-> IF l = "00" THEN 1 ELSE 0], k |-> 0, applied |-> 0]

\* Hadamard on qubit q: |0> -> (|0> + |1>)/sqrt 2, |1> -> (|0> - |1>)/sqrt 2
H(p, q) ==
    [p EXCEPT !.amp = [l \in Labels |->
                          IF Bit(l, q) = 0
                            THEN p.amp[WithBit(l, q, 0)] + p.amp[WithBit(l, q, 1)]
                            ELSE p.amp[WithBit(l, q, 0)] - p.amp[WithBit(l, q, 1)]],
              !.k = p.k + 1]

\* CX with control and target exchanged
CXSwapped(p, c, t) ==
    [p EXCEPT !.amp = [l \in Labels |->
                          IF Bit(l, t) = 1
                            THEN p.amp[WithBit(l, c, 1 - Bit(l, c))]
                            ELSE p.amp[l]]]

\* CNOT: the target is flipped where the control is 1
CX(p, c, t) ==
    [p EXCEPT !.amp = [l \in Labels |->
                          IF Bit(l, c) = 1
                            THEN p.amp[WithBit(l, t, 1 - Bit(l, t))]
                            ELSE p.amp[l]]]

\* Z left out: the state is not changed
ZOmitted(p, q) == p

\* Z on qubit q: the sign of |1> is flipped
Z(p, q) ==
    [p EXCEPT !.amp = [l \in Labels |->
                          IF Bit(l, q) = 1 THEN 0 - p.amp[l] ELSE p.amp[l]]]

\* CZ: the sign is flipped where both qubits are 1
CZ(p, c, t) ==
    [p EXCEPT !.amp = [l \in Labels |->
                          IF Bit(l, c) = 1 /\ Bit(l, t) = 1
                            THEN 0 - p.amp[l] ELSE p.amp[l]]]

\* one instruction executed; a barrier does nothing, and the state kept
\* is the one the measurement samples
Apply(p, ins) ==
    LET q == CASE ins.gate = "h" -> H(p, ins.qubits[1])
               [] ins.gate = "cx" -> CX(p, ins.qubits[1], ins.qubits[2])
               [] ins.gate = "z" -> Z(p, ins.qubits[1])
               [] ins.gate = "cz" -> CZ(p, ins.qubits[1], ins.qubits[2])
               [] OTHER -> p
    IN  [q EXCEPT !.applied = p.applied + 1]

\* the state a circuit prepares from |00>
RECURSIVE Prepare(_, _)
Prepare(circ, p) ==
    IF circ = <<>> THEN p ELSE Prepare(Tail(circ), Apply(p, Head(circ)))

\* 2^k
RECURSIVE Pow2(_)
Pow2(k) == IF k = 0 THEN 1 ELSE 2 * Pow2(k - 1)

\* the probability of measuring a label: |amplitude|^2
Prob(p, label) == [num |-> p.amp[label] * p.amp[label], den |-> Pow2(p.k)]

--------------------------------------------------------------------------
(* single_circuit_demo.py and visual_quantum_demo.py *)

\* ret names the script that runs.  run counts the calls of simulator.run,
\* args holds the keyword arguments of the latest one, counts its result.
\* figure tells what each axis shows, locals is the frame of main, caught
\* the set of exceptions an except clause took, each with the function of
\* the clause and the call that raised.  An exception no clause takes ends
\* the script: pc = "crashed" and error names it.

\* shots=1000 of the three simulator.run calls
SingleShots == 1000
GalleryShots == 1000

\* The result of get_counts holds the observed labels only, each with a
\* positive count, and the counts sum to the shots.  The backend is not
\* assumed to be noise-free: the reporting code is run on every result.
ObservedCounts ==
    SimOutcomes \cup
    { ("11" :> 1000),
      ("00" :> 498) @@ ("11" :> 499) @@ ("01" :> 3),
      ("00" :> 497) @@ ("11" :> 500) @@ ("01" :> 1) @@ ("10" :> 2) }

\* sorted() of the labels: the order of the strings
LabelOrder == <<"00", "01", "10", "11">>

\* the position of a label in that order
Index(label) == CHOOSE i \in 1..Len(LabelOrder) : LabelOrder[i] = label

\* sorted(counts.items()), the keys
SortedKeys(d) == SelectSeq(LabelOrder, LAMBDA l : l \in DOMAIN d)

\* sum(counts.values())
Total(d) == Sum([i \in 1..Len(SortedKeys(d)) |-> d[SortedKeys(d)[i]]])

\* what simulator.run(circuit, shots=n).result().get_counts() may give
GetCounts(n) == { c \in ObservedCounts : Total(c) = n }

\* the results of the Grover circuit
GroverCounts == { ("11" :> 1000), ("11" :> 996) @@ ("00" :> 4) }

\* an except clause takes an exception
Catch(handler, call) == caught \cup {[handler |-> handler, call |-> call]}

\* main, lines 251-283: banner, the circuit as text, details, explanation
SingleIntro ==
    /\ pc = "s_main"
    /\ circuit' = BellStateCircuit
    /\ output' = output \o <<"banner", "circuit_text", "details", "explanation",
                             "running">>
    /\ pc' = "s_create"
    /\ UNCHANGED <<ret, args, results, run, counts, locals, figure, error,
                   other, psi, caught>>

\* simulate_and_visualize, lines 105-113: the circuit and the figure
SingleCreate ==
    /\ pc = "s_create"
    /\ circuit' = BellStateCircuit
    /\ figure' = EmptyDict
    /\ pc' = "s_draw"
    /\ UNCHANGED <<ret, args, results, run, counts, locals, output, error,
                   other, psi, caught>>

\* SingleDraw without the try: a failure of circuit.draw ends the script
SingleDrawNoTry ==
    /\ pc = "s_draw"
    /\ \E ok \in BOOLEAN :
          IF ok
            THEN /\ figure' = ("ax1" :> "mpl")
                 /\ pc' = "s_run"
                 /\ error' = error
            ELSE /\ figure' = figure
                 /\ pc' = "crashed"
                 /\ error' = "circuit.draw"
    /\ UNCHANGED <<ret, args, results, run, counts, locals, output,
                   other, circuit, psi, caught>>

\* lines 114-123: circuit.draw in a try, the text of the circuit in the
\* bare except
SingleDraw ==
    /\ pc = "s_draw"
    /\ \E ok \in BOOLEAN :
          IF ok
            THEN /\ figure' = ("ax1" :> "mpl")
                 /\ caught' = caught
            ELSE /\ figure' = ("ax1" :> "text")
                 /\ caught' = Catch("simulate_and_visualize", "circuit.draw")
    /\ pc' = "s_run"
    /\ UNCHANGED <<ret, args, results, run, counts, locals, output, error,
                   other, circuit, psi>>

\* lines 126-127: simulator.run(circuit, shots=1000), outside any try
SingleRun ==
    /\ pc = "s_run"
    /\ \E ok \in BOOLEAN :
          IF ok
            THEN /\ run' = run + 1
                 /\ args' = ("shots" :> SingleShots)
                 /\ psi' = Psi0
                 /\ pc' = "s_gate"
                 /\ error' = error
            ELSE /\ pc' = "crashed"
                 /\ error' = "simulator.run"
                 /\ UNCHANGED <<run, args, psi>>
    /\ UNCHANGED <<ret, results, counts, locals, figure, output,
                   other, circuit, caught>>

\* the backend executes the next instruction of the circuit
BackendStep ==
    /\ pc \in {"s_gate", "v_gate"}
    /\ psi.applied < Len(circuit)
    /\ psi' = Apply(psi, circuit[psi.applied + 1])
    /\ UNCHANGED <<pc, ret, args, results, run, counts, locals, figure, output,
                   error, other, circuit, caught>>

\* lines 128-129: result.get_counts()
SingleCounts ==
    /\ pc = "s_gate"
    /\ psi.applied = Len(circuit)
    /\ counts' \in GetCounts(args["shots"])
    /\ pc' = "s_plot"
    /\ UNCHANGED <<ret, args, results, run, locals, figure, output, error,
                   other, circuit, psi, caught>>

\* lines 131-246: the histogram and the panels, savefig, show, return
\* counts; then main, lines 285-288
SinglePlot ==
    /\ pc = "s_plot"
    /\ \E ok \in BOOLEAN :
          IF ok
            THEN /\ figure' = figure @@ ("ax2" :> counts)
                 /\ locals' = ("counts" :> counts) @@ ("total_shots" :> Total(counts))
                 /\ output' = Append(output, "results_explained")
                 /\ pc' = "s_lines"
                 /\ error' = error
            ELSE /\ pc' = "crashed"
                 /\ error' = "plt.savefig"
                 /\ UNCHANGED <<figure, locals, output>>
    /\ UNCHANGED <<ret, args, results, run, counts, other, circuit, psi, caught>>

\* the keys the loop of line 289 has still to visit
KeysLeft ==
    SelectSeq(SortedKeys(locals["counts"]),
              LAMBDA l : "state" \notin DOMAIN locals
                            \/ Index(l) > Index(locals["state"]))

\* the line printed for a state, lines 291-296
StateLine(state) ==
    IF state = "00" THEN "line_00"
    ELSE IF state = "11" THEN "line_11"
    ELSE "line_mixed"

\* one iteration of the loop of lines 289-296
SingleLine ==
    /\ pc = "s_lines"
    /\ KeysLeft # <<>>
    /\ LET state == Head(KeysLeft)
           count == locals["counts"][state]
       IN  /\ locals' = ("state" :> state) @@ ("count" :> count)
                          @@ ("percentage" :>
                                [num |-> count * 100, den |-> locals["total_shots"]])
                          @@ locals
           /\ output' = Append(output, StateLine(state))
    /\ UNCHANGED <<pc, ret, args, results, run, counts, figure, error,
                   other, circuit, psi, caught>>

\* SingleVerdict testing '01' only
SingleVerdictOnly01 ==
    /\ pc = "s_lines"
    /\ KeysLeft = <<>>
    /\ output' = output \o <<"results_mean",
                             IF "01" \in DOMAIN locals["counts"]
                               THEN "mixed_detected" ELSE "perfect_entanglement">>
    /\ pc' = "s_outro"
    /\ UNCHANGED <<ret, args, results, run, counts, locals, figure, error,
                   other, circuit, psi, caught>>

\* lines 298-307: if '01' in counts or '10' in counts
SingleVerdict ==
    /\ pc = "s_lines"
    /\ KeysLeft = <<>>
    /\ output' = output \o <<"results_mean",
                             IF "01" \in DOMAIN locals["counts"]
                                  \/ "10" \in DOMAIN locals["counts"]
                               THEN "mixed_detected" ELSE "perfect_entanglement">>
    /\ pc' = "s_outro"
    /\ UNCHANGED <<ret, args, results, run, counts, locals, figure, error,
                   other, circuit, psi, caught>>

\* lines 309-327
SingleOutro ==
    /\ pc = "s_outro"
    /\ output' = output \o <<"key_takeaway", "files_created", "visual_output">>
    /\ pc' = "done"
    /\ UNCHANGED <<ret, args, results, run, counts, locals, figure, error,
                   other, circuit, psi, caught>>

\* visual_quantum_demo.main, lines 253-256: the banner, then into the try
GalleryIntro ==
    /\ pc = "v_main"
    /\ output' = Append(output, "gallery_banner")
    /\ pc' = "v_create"
    /\ UNCHANGED <<ret, args, results, run, counts, locals, figure, error,
                   other, circuit, psi, caught>>

\* visualize_quantum_gallery, lines 59-75: the figure and the circuits
GalleryCreate ==
    /\ pc = "v_create"
    /\ circuit' = BeautifulBellCircuit
    /\ figure' = EmptyDict
    /\ pc' = "v_draw"
    /\ UNCHANGED <<ret, args, results, run, counts, locals, output, error,
                   other, psi, caught>>

\* the axes and the circuits drawn in the try, in their order
GalleryAxes == <<"ax1", "ax2", "ax3">>
GalleryDrawn == <<"bell_circuit.draw", "grover_circuit.draw", "qft_circuit.draw">>

\* the three axes of the text fallback
TextFigure == ("ax1" :> "text") @@ ("ax2" :> "text") @@ ("ax3" :> "text")

\* the except clause of main, lines 270-273, takes what the call of
\* visualize_quantum_gallery raised
MainCatches(call) ==
    /\ caught' = Catch("main", call)
    /\ output' = output \o <<"error_creating_gallery", "ensure_packages", "pip_install">>
    /\ pc' = "done"

\* lines 77-115: the next draw of the try, or the except clause with the
\* text of the three circuits
GalleryDraw ==
    /\ pc = "v_draw"
    /\ LET n == Cardinality(DOMAIN figure) + 1
       IN  \E ok \in BOOLEAN :
              IF ok
                THEN /\ figure' = figure @@ (GalleryAxes[n] :> "mpl")
                     /\ pc' = IF n = Len(GalleryAxes) THEN "v_run_bell" ELSE "v_draw"
                     /\ UNCHANGED <<output, caught>>
                ELSE /\ figure' = TextFigure
                     /\ caught' = Catch("visualize_quantum_gallery", GalleryDrawn[n])
                     /\ output' = output \o <<"mpl_not_available", "falling_back">>
                     /\ pc' = "v_run_bell"
    /\ UNCHANGED <<ret, args, results, run, counts, locals, error,
                   other, circuit, psi>>

\* line 121: simulator.run(bell_circuit, shots=1000)
GalleryRunBell ==
    /\ pc = "v_run_bell"
    /\ \E ok \in BOOLEAN :
          IF ok
            THEN /\ run' = run + 1
                 /\ args' = ("shots" :> GalleryShots)
                 /\ psi' = Psi0
                 /\ pc' = "v_gate"
                 /\ UNCHANGED <<output, caught>>
            ELSE /\ MainCatches("simulator.run")
                 /\ UNCHANGED <<run, args, psi>>
    /\ UNCHANGED <<ret, results, counts, locals, figure, error, other, circuit>>

\* lines 122-126: bell_counts and its histogram
GalleryBellCounts ==
    /\ pc = "v_gate"
    /\ psi.applied = Len(circuit)
    /\ counts' \in GetCounts(args["shots"])
    /\ locals' = ("bell_counts" :> counts')
    /\ figure' = figure @@ ("ax4" :> counts')
    /\ pc' = "v_run_grover"
    /\ UNCHANGED <<ret, args, results, run, output, error, other, circuit, psi,
                   caught>>

\* lines 129-134: the Grover circuit run, grover_counts and its histogram
GalleryRunGrover ==
    /\ pc = "v_run_grover"
    /\ \E ok \in BOOLEAN :
          IF ok
            THEN /\ run' = run + 1
                 /\ args' = ("shots" :> GalleryShots)
                 /\ \E g \in GroverCounts :
                       /\ locals' = locals @@ ("grover_counts" :> g)
                       /\ figure' = figure @@ ("ax5" :> g)
                 /\ pc' = "v_save"
                 /\ UNCHANGED <<output, caught>>
            ELSE /\ MainCatches("simulator.run")
                 /\ UNCHANGED <<run, args, locals, figure>>
    /\ UNCHANGED <<ret, results, counts, error, other, circuit, psi>>

\* lines 136-249: the panels, savefig, show, return bell_counts, grover_counts
GallerySave ==
    /\ pc = "v_save"
    /\ \E ok \in BOOLEAN :
          IF ok
            THEN /\ results' = <<locals["bell_counts"], locals["grover_counts"]>>
                 /\ pc' = "v_report"
                 /\ UNCHANGED <<output, caught>>
            ELSE /\ MainCatches("plt.savefig")
                 /\ results' = results
    /\ UNCHANGED <<ret, args, run, counts, locals, figure, error, other, circuit,
                   psi>>

\* main, lines 257-268
GalleryReport ==
    /\ pc = "v_report"
    /\ output' = output \o <<"gallery_created", "saved_as", "bell_results",
                             "grover_results", "key_observations">>
    /\ pc' = "done"
    /\ UNCHANGED <<ret, args, results, run, counts, locals, figure, error,
                   other, circuit, psi, caught>>

\* the two scripts
Scripts == {"single_circuit_demo", "visual_quantum_demo"}

InitScripts ==
    /\ ret \in Scripts
    /\ pc = IF ret = "single_circuit_demo" THEN "s_main" ELSE "v_main"
    /\ args = EmptyDict
    /\ results = <<>>
    /\ run = 0
    /\ counts = EmptyDict
    /\ locals = EmptyDict
    /\ figure = EmptyDict
    /\ output = <<>>
    /\ error = "none"
    /\ other = NoCall
    /\ circuit = <<>>
    /\ psi = <<>>
    /\ caught = {}

NextScripts ==
    \/ SingleIntro
    \/ SingleCreate
    \/ SingleDraw
    \/ SingleRun
    \/ BackendStep
    \/ SingleCounts
    \/ SinglePlot
    \/ SingleLine
    \/ SingleVerdict
    \/ SingleOutro
    \/ GalleryIntro
    \/ GalleryCreate
    \/ GalleryDraw
    \/ GalleryRunBell
    \/ GalleryBellCounts
    \/ GalleryRunGrover
    \/ GallerySave
    \/ GalleryReport

SpecScripts == InitScripts /\ [][NextScripts]_vars

--------------------------------------------------------------------------
(* The circuit constructors *)

\* Each constructor of the repository called on its own: ret names it, pc
\* is its position, circuit the instructions added so far, locals the loop
\* variables of the QFT builders.  A two-qubit circuit with a measurement
\* is then executed from |00>.

\* n_qubits = 3 in both QFT builders
NQubits == 3

\* the loops of the builders are written for any n_qubits: they are run
\* for every n_qubits from 1 to MaxQubits
MaxQubits == 4

\* circuit.cp(pi / 2^k, control, target): the angle as a fraction of pi
CP(k, control, target) ==
    [gate |-> "cp", qubits |-> <<control, target>>,
     angle |-> [num |-> 1, den |-> Pow2(k)]]

\* visual_quantum_demo.create_grover_circuit
GroverCircuit ==
    << Ins("h", <<0>>), Ins("h", <<1>>), Ins("barrier", <<0, 1>>),
       Ins("cz", <<0, 1>>), Ins("barrier", <<0, 1>>),
       Ins("h", <<0>>), Ins("h", <<1>>), Ins("z", <<0>>), Ins("z", <<1>>),
       Ins("cz", <<0, 1>>), Ins("h", <<0>>), Ins("h", <<1>>),
       Ins("barrier", <<0, 1>>), Ins("measure", <<0, 1>>) >>

\* quantum_circuit_demo.create_grover_search_circuit
GroverSearchCircuit ==
    << Ins("h", <<0>>), Ins("h", <<1>>),
       Ins("cz", <<0, 1>>),
       Ins("h", <<0>>), Ins("h", <<1>>), Ins("z", <<0>>), Ins("z", <<1>>),
       Ins("cz", <<0, 1>>), Ins("h", <<0>>), Ins("h", <<1>>),
       Ins("measure", <<0, 1>>) >>

\* the QFT written out in visualize_quantum_gallery: np.pi/2 and np.pi/4
UnrolledQft ==
    << Ins("h", <<0>>),
       [gate |-> "cp", qubits |-> <<1, 0>>, angle |-> [num |-> 1, den |-> 2]],
       [gate |-> "cp", qubits |-> <<2, 0>>, angle |-> [num |-> 1, den |-> 4]],
       Ins("h", <<1>>),
       [gate |-> "cp", qubits |-> <<2, 1>>, angle |-> [num |-> 1, den |-> 2]],
       Ins("h", <<2>>),
       Ins("swap", <<0, 2>>) >>

\* the constructors that are a fixed list of calls, with the list
Programs ==
    ("single_circuit_demo.create_bell_state_circuit" :> BellStateCircuit)
    @@ ("visual_quantum_demo.create_beautiful_bell_circuit" :> BeautifulBellCircuit)
    @@ ("quantum_randomness_demo.create_bell_circuit" :> BellCircuit)
    @@ ("simple_quantum_demo.create_bell_state_circuit" :> SimpleBellCircuit)
    @@ ("visual_quantum_demo.create_grover_circuit" :> GroverCircuit)
    @@ ("quantum_circuit_demo.create_grover_search_circuit" :> GroverSearchCircuit)
    @@ ("visual_quantum_demo.qft_circuit" :> UnrolledQft)

\* the constructors that build the QFT with loops
QftBuilders ==
    { "quantum_circuit_demo.create_quantum_fourier_transform",
      "simple_quantum_demo.create_quantum_fourier_transform" }

\* the constructors of the two Grover circuits
GroverBuilders ==
    { "visual_quantum_demo.create_grover_circuit",
      "quantum_circuit_demo.create_grover_search_circuit" }

\* the next call of a fixed list
Emit ==
    /\ pc = "build"
    /\ Len(circuit) < Len(Programs[ret])
    /\ circuit' = Append(circuit, Programs[ret][Len(circuit) + 1])
    /\ UNCHANGED <<pc, ret, args, results, run, counts, locals, figure, output,
                   error, other, psi, caught>>

\* return circuit
Return ==
    /\ pc = "build"
    /\ Len(circuit) = Len(Programs[ret])
    /\ pc' = "built"
    /\ UNCHANGED <<ret, args, results, run, counts, locals, figure, output,
                   error, other, circuit, psi, caught>>

\* for i in range(n_qubits): circuit.h(qreg[i])
QftH ==
    /\ pc = "qft_h"
    /\ circuit' = Append(circuit, Ins("h", <<locals["i"]>>))
    /\ locals' = ("j" :> locals["i"] + 1) @@ locals
    /\ pc' = "qft_cp"
    /\ UNCHANGED <<ret, args, results, run, counts, figure, output,
                   error, other, psi, caught>>

\* QftCp with the angle pi / 2 ** j
QftCpAngleFromJ ==
    /\ pc = "qft_cp"
    /\ locals["j"] < locals["n_qubits"]
    /\ circuit' = Append(circuit, CP(locals["j"], locals["j"], locals["i"]))
    /\ locals' = ("j" :> locals["j"] + 1) @@ locals
    /\ UNCHANGED <<pc, ret, args, results, run, counts, figure, output,
                   error, other, psi, caught>>

\* for j in range(i + 1, n_qubits):
\*     circuit.cp(np.pi / (2 ** (j - i)), qreg[j], qreg[i])
QftCp ==
    /\ pc = "qft_cp"
    /\ locals["j"] < locals["n_qubits"]
    /\ circuit' = Append(circuit,
                         CP(locals["j"] - locals["i"], locals["j"], locals["i"]))
    /\ locals' = ("j" :> locals["j"] + 1) @@ locals
    /\ UNCHANGED <<pc, ret, args, results, run, counts, figure, output,
                   error, other, psi, caught>>

\* the inner loop is over: the next i, or the swap loop from i = 0
QftNext ==
    /\ pc = "qft_cp"
    /\ locals["j"] >= locals["n_qubits"]
    /\ IF locals["i"] + 1 < locals["n_qubits"]
         THEN /\ locals' = ("i" :> locals["i"] + 1) @@ locals
              /\ pc' = "qft_h"
         ELSE /\ locals' = ("i" :> 0) @@ locals
              /\ pc' = "qft_swap"
    /\ UNCHANGED <<ret, args, results, run, counts, figure, output,
                   error, other, circuit, psi, caught>>

\* for i in range(n_qubits // 2): circuit.swap(qreg[i], qreg[n_qubits - 1 - i])
QftSwap ==
    /\ pc = "qft_swap"
    /\ locals["i"] < locals["n_qubits"] \div 2
    /\ circuit' = Append(circuit,
                         Ins("swap", <<locals["i"], locals["n_qubits"] - 1 - locals["i"]>>))
    /\ locals' = ("i" :> locals["i"] + 1) @@ locals
    /\ UNCHANGED <<pc, ret, args, results, run, counts, figure, output,
                   error, other, psi, caught>>

\* return circuit
QftReturn ==
    /\ pc = "qft_swap"
    /\ locals["i"] >= locals["n_qubits"] \div 2
    /\ pc' = "built"
    /\ UNCHANGED <<ret, args, results, run, counts, locals, figure, output,
                   error, other, circuit, psi, caught>>

\* the circuit measures its two qubits
Measures(circ) == \E k \in 1..Len(circ) : circ[k] = Ins("measure", <<0, 1>>)

\* the backend takes a built circuit that has a measurement
Load ==
    /\ pc = "built"
    /\ Measures(circuit)
    /\ psi' = Psi0
    /\ run' = run + 1
    /\ pc' = "run"
    /\ UNCHANGED <<ret, args, results, counts, locals, figure, output,
                   error, other, circuit, caught>>

\* the backend executes the next instruction
Execute ==
    /\ pc = "run"
    /\ psi.applied < Len(circuit)
    /\ psi' = Apply(psi, circuit[psi.applied + 1])
    /\ pc' = IF psi.applied + 1 = Len(circuit) THEN "measured" ELSE "run"
    /\ UNCHANGED <<ret, args, results, run, counts, locals, figure, output,
                   error, other, circuit, caught>>

InitCircuits ==
    /\ ret \in DOMAIN Programs \cup QftBuilders
    /\ pc = IF ret \in QftBuilders THEN "qft_h" ELSE "build"
    /\ IF ret \in QftBuilders
         THEN \E n \in 1..MaxQubits : locals = ("n_qubits" :> n) @@ ("i" :> 0)
         ELSE locals = EmptyDict
    /\ args = EmptyDict
    /\ results = <<>>
    /\ run = 0
    /\ counts = EmptyDict
    /\ figure = EmptyDict
    /\ output = <<>>
    /\ error = "none"
    /\ other = NoCall
    /\ circuit = <<>>
    /\ psi = <<>>
    /\ caught = {}

NextCircuits ==
    \/ Emit
    \/ Return
    \/ QftH
    \/ QftCp
    \/ QftNext
    \/ QftSwap
    \/ QftReturn
    \/ Load
    \/ Execute

SpecCircuits == InitCircuits /\ [][NextCircuits]_vars

--------------------------------------------------------------------------
(* Properties *)

\* analyze_results has run to its last line (its locals are all assigned)
AnalysisDone == pc \in {"returned", "visualize", "insights", "done"}

\* the call of analyze_results is over, by return or by exception
CallOver == pc \in {"returned", "raised"}

\* count >= 500 - 3*sqrt(250), decided exactly
AtLeastLow(c) == c >= 500 \/ (500 - c) * (500 - c) <= 9 * 250

\* count <= 500 + 3*sqrt(250), decided exactly
AtMostHigh(c) == c <= 500 \/ (c - 500) * (c - 500) <= 9 * 250

\* C1: once the validator has finished on a (non-empty) series, its verdict
\* within_range is TRUE exactly when every sample's '00' count lies in the
\* closed interval [500 - 3*sqrt(250), 500 + 3*sqrt(250)].
C1_WithinIffInInterval ==
    AnalysisDone =>
        (locals["within_range"] <=>
            \A i \in 1..Len(results) :
                AtLeastLow(results[i]["00"]) /\ AtMostHigh(results[i]["00"]))

\* a TRUE verdict on a series holding both extreme accepted counts, 453 and 547
C1_Witness ==
    /\ pc = "returned"
    /\ locals["within_range"]
    /\ \E i, j \in 1..Len(results) :
          results[i]["00"] = 453 /\ results[j]["00"] = 547

\* C2: the half-width used is exactly 3*sqrt(T*p*(1-p)) with T = 1000 and
\* p = 1/2 (its square is 9*1000/4); it lies strictly between 47.35 and
\* 47.45, so that low is 452.6 and high is 547.4 to one decimal; and the
\* verdict accepts exactly the integer counts c with (c-500)^2 <= 9*250,
\* which are the counts 453..547.
C2_ThreeSigmaInterval ==
    AnalysisDone =>
        LET ts == locals["three_sigma"]
            sq == ts.coef * ts.coef * ts.rad
        IN  /\ 4 * sq = 9 * 1000
            /\ 4735 * 4735 < 10000 * sq
            /\ 10000 * sq < 4745 * 4745
            /\ locals["within_range"] <=>
                  \A i \in 1..Len(results) :
                      453 <= results[i]["00"] /\ results[i]["00"] <= 547
            /\ \A i \in 1..Len(results) :
                  LET c == results[i]["00"]
                  IN  ((c - 500) * (c - 500) <= 9 * 250) <=> (453 <= c /\ c <= 547)

\* a single sample whose '00' count, 452, is the first integer below low: rejected
C2_Witness ==
    /\ pc = "returned"
    /\ Len(results) = 1
    /\ results[1]["00"] = 452
    /\ ~locals["within_range"]

\* C3: a call with an empty series (and no further argument) ends in an
\* EmptyInputError.
C3_EmptyRaisesEmptyInputError ==
    (CallOver /\ Len(results) = 0 /\ DOMAIN args = {}) =>
        (pc = "raised" /\ error = "EmptyInputError")

\* trials_per_sample <= 0, or expected_ratio outside (0, 1)
BadParams(a) ==
    \/ "trials_per_sample" \in DOMAIN a /\ a["trials_per_sample"] <= 0
    \/ "expected_ratio" \in DOMAIN a
          /\ ~(0 < a["expected_ratio"].num
                  /\ a["expected_ratio"].num < a["expected_ratio"].den)

\* C4: a call that passes trials_per_sample <= 0 or an expected_ratio outside
\* (0, 1) ends in an InvalidParameterError, with no statistic computed.
C4_BadParamsRaiseInvalidParameterError ==
    (CallOver /\ BadParams(args)) =>
        (pc = "raised" /\ error = "InvalidParameterError" /\ DOMAIN locals = {})

\* C5: whenever the validator has failed, nothing was computed and nothing
\* was printed before the error.
C5_FailFast ==
    error # "none" => (output = <<>> /\ DOMAIN locals = {})

\* C6: at every point of the collection (and after it) every sample of the
\* series has the four labels, each count >= 0, and the counts sum to 1000.
C6_SamplesSumToShots ==
    \A i \in 1..Len(results) :
        /\ DOMAIN results[i] = Labels
        /\ \A k \in Labels : results[i][k] >= 0
        /\ results[i]["00"] + results[i]["11"] + results[i]["01"] + results[i]["10"] = 1000

\* the simulator has just omitted the labels it did not observe, and the
\* sample appended for that run holds 0 for them
C6_Witness ==
    /\ pc = "loop"
    /\ run >= 2
    /\ DOMAIN counts = {"00"}
    /\ results[run]["11"] = 0 /\ results[run]["01"] = 0 /\ results[run]["10"] = 0

\* every sample has non-negative counts that sum to T = 1000
SeriesSumsToT(res) ==
    \A i \in 1..Len(res) :
        /\ \A k \in Labels : res[i][k] >= 0
        /\ res[i]["00"] + res[i]["11"] + res[i]["01"] + res[i]["10"] = 1000

\* C7: for a non-empty series whose samples each sum to T = 1000 with
\* non-negative counts, the three means lie in [0, T].
C7_MeansWithinTrials ==
    (AnalysisDone /\ SeriesSumsToT(results)) =>
        \A m \in {"avg_00", "avg_11", "avg_mixed"} :
            /\ locals[m].den > 0
            /\ 0 <= locals[m].num
            /\ locals[m].num <= 1000 * locals[m].den

\* several samples summing to T whose '00' mean is strictly inside (0, T)
\* while the mixed mean is positive
C7_Witness ==
    /\ pc = "returned"
    /\ Len(results) >= 2
    /\ SeriesSumsToT(results)
    /\ 0 < locals["avg_00"].num
    /\ locals["avg_00"].num < 1000 * locals["avg_00"].den
    /\ locals["avg_mixed"].num > 0

\* the sum of one label's counts over the samples whose index is in I
RECURSIVE LabelTotal(_, _, _)
LabelTotal(res, label, I) ==
    IF I = {} THEN 0
    ELSE LET i == CHOOSE x \in I : TRUE
         IN  res[i][label] + LabelTotal(res, label, I \ {i})

\* m is the smallest count of the label over the series
IsSmallest(res, label, m) ==
    /\ \E i \in 1..Len(res) : res[i][label] = m
    /\ \A i \in 1..Len(res) : m <= res[i][label]

\* m is the largest count of the label over the series
IsLargest(res, label, m) ==
    /\ \E i \in 1..Len(res) : res[i][label] = m
    /\ \A i \in 1..Len(res) : m >= res[i][label]

\* C8: for '00' and for '11', the mean is the label's total over the series
\* divided by the number of samples, and the range is (smallest, largest).
C8_GoodMeansAndRanges ==
    AnalysisDone =>
        /\ locals["avg_00"].num * Len(results)
              = LabelTotal(results, "00", 1..Len(results)) * locals["avg_00"].den
        /\ locals["avg_11"].num * Len(results)
              = LabelTotal(results, "11", 1..Len(results)) * locals["avg_11"].den
        /\ IsSmallest(results, "00", locals["min_00"])
        /\ IsLargest(results, "00", locals["max_00"])
        /\ IsSmallest(results, "11", locals["min_11"])
        /\ IsLargest(results, "11", locals["max_11"])

\* a series on which both ranges are proper and the two means differ
C8_Witness ==
    /\ pc = "returned"
    /\ Len(results) >= 2
    /\ locals["min_00"] < locals["max_00"]
    /\ locals["min_11"] < locals["max_11"]
    /\ locals["avg_00"].num # locals["avg_11"].num

\* C9: the mixed mean is the total of the '01' and '10' counts over the
\* series divided by the number of samples, and it is 0 exactly when no
\* sample has a '01' or '10' count.
C9_MixedMean ==
    AnalysisDone =>
        /\ locals["avg_mixed"].num * Len(results)
              = (LabelTotal(results, "01", 1..Len(results))
                   + LabelTotal(results, "10", 1..Len(results)))
                 * locals["avg_mixed"].den
        /\ (locals["avg_mixed"].num = 0) <=>
              \A i \in 1..Len(results) : results[i]["01"] = 0 /\ results[i]["10"] = 0

\* a series mixing a clean sample with one that has both '01' and '10' counts
C9_Witness ==
    /\ pc = "returned"
    /\ locals["avg_mixed"].num > 0
    /\ \E i, j \in 1..Len(results) :
          /\ results[i]["01"] = 0 /\ results[i]["10"] = 0
          /\ results[j]["01"] > 0 /\ results[j]["10"] > 0

\* every sample is 500/500/0/0
AllIdeal(res) == \A i \in 1..Len(res) : res[i] = Sample4(500, 500, 0, 0)

\* C10: on a series whose samples are all 500/500/0/0 (T = 1000), both good
\* means are 500, the mixed mean is 0 and the 3-sigma verdict is TRUE.
C10_IdealSeries ==
    (AnalysisDone /\ AllIdeal(results)) =>
        /\ locals["avg_00"].num = 500 * locals["avg_00"].den
        /\ locals["avg_11"].num = 500 * locals["avg_11"].den
        /\ locals["avg_mixed"].num = 0
        /\ locals["within_range"]

\* the script has analysed ten samples of 500/500/0/0
C10_Witness ==
    /\ pc = "done"
    /\ Len(results) = 10
    /\ AllIdeal(results)
    /\ \E k \in 1..Len(output) : output[k] = "verdict_yes"

\* the positions of main from the call of analyze_results on
AfterCollection ==
    {"analyze_call", "a_header", "a_stats", "a_report", "a_validate",
     "visualize", "insights", "done", "raised"}

\* C11: from the call of analyze_results on, through visualize_randomness
\* and to the end of main, no step changes the series: same length, same
\* samples, same order.
C11_SeriesReadOnly ==
    [][(pc \in AfterCollection) => (results' = results)]_vars

\* main is over: both functions have read a series of differing samples,
\* which still ends with the sample appended last
C11_Witness ==
    /\ pc = "done"
    /\ DOMAIN figure # {}
    /\ "within_range" \in DOMAIN locals
    /\ Len(results) = 10
    /\ results[1] # results[2]
    /\ results[10] = MakeSample(counts)

\* a series in another order
Permuted(res, p) == [i \in 1..Len(res) |-> res[p[i]]]

\* the statistics of a finished call: everything but the three lists
StatNames ==
    {"avg_00", "avg_11", "avg_mixed", "min_00", "max_00", "min_11", "max_11",
     "within_range"}

\* C12: the means, ranges, mixed mean and verdict the validator has computed
\* for a series are the ones it computes for every permutation of it.
C12_OrderIndependent ==
    AnalysisDone =>
        \A p \in Permutations(1..Len(results)) :
            \A n \in StatNames :
                FullLocals(Permuted(results, p))[n] = locals[n]

\* a finished call on three samples, no two alike, of which the first is
\* inside the 3-sigma interval and the last is not
C12_Witness ==
    /\ pc = "returned"
    /\ Len(results) = 3
    /\ results[1] # results[2] /\ results[2] # results[3] /\ results[1] # results[3]
    /\ WithinSigma(results[1]["00"], ThreeSigma(ExpectedStd))
    /\ ~WithinSigma(results[3]["00"], ThreeSigma(ExpectedStd))
    /\ ~locals["within_range"]

\* a step of the loop that counts one run and appends one sample at the end
AppendsOneSample ==
    /\ pc = "loop"
    /\ run' = run + 1
    /\ Len(results') = Len(results) + 1
    /\ SubSeq(results', 1, Len(results)) = results

\* C13: the loop makes exactly 10 runs: during the loop the series holds one
\* sample per run made, in run order (each run appends its sample at the
\* end), and from the return of run_multiple_experiments on the series has
\* exactly 10 samples.
C13_TenRunsInOrder ==
    /\ [](/\ pc = "loop" => (Len(results) = run /\ run <= 10)
          /\ pc \in AfterCollection => (Len(results) = 10 /\ run = 10))
    /\ [][(results' # results \/ run' # run) => AppendsOneSample]_vars

\* the series returned to main: ten samples, the first from a run that saw
\* only '00', the last from a run that saw a mixed label
C13_Witness ==
    /\ pc = "analyze_call"
    /\ run = 10
    /\ Len(results) = 10
    /\ results[1]["00"] = 1000
    /\ results[10]["10"] > 0

\* the phase of main a printed line belongs to
Phase(line) ==
    CASE line = "banner" -> 0
      [] line \in {"run_perfect", "run_unexpected"} -> 1
      [] line \in {"analysis_header", "stats_00", "stats_11", "stats_mixed",
                   "what_this_shows", "validation", "verdict_yes", "verdict_no"} -> 2
      [] line = "creating_visualization" -> 3
      [] OTHER -> 4

\* a step of the loop taken while nothing of the analysis has happened
RunsBeforeAnalysis ==
    /\ pc = "loop" /\ pc' = "loop"
    /\ run' = run + 1
    /\ DOMAIN locals = {}
    /\ \A k \in 1..Len(output) : Phase(output[k]) <= 1

\* C14: in main, validation starts only when all 10 samples are collected,
\* visualisation starts only when validation has delivered its verdict, the
\* printed lines follow that order, and a simulator run (a change of counts
\* or of the run counter) happens only in the loop, before any line of the
\* analysis is printed or any of its locals assigned.
C14_CollectThenValidateThenPlot ==
    /\ [](/\ pc \in AfterCollection => (run = 10 /\ Len(results) = 10)
          /\ pc \in {"visualize", "insights", "done"} =>
                ("within_range" \in DOMAIN locals
                    /\ \E k \in 1..Len(output) : output[k] \in {"verdict_yes", "verdict_no"})
          /\ DOMAIN figure # {} => pc \in {"insights", "done"}
          /\ \A i, j \in 1..Len(output) : i < j => Phase(output[i]) <= Phase(output[j]))
    /\ [][(counts' # counts \/ run' # run) => RunsBeforeAnalysis]_vars

\* main has gone through its three phases
C14_Witness ==
    /\ pc = "done"
    /\ run = 10
    /\ output[1] = "banner"
    /\ \E k \in 1..Len(output) : output[k] = "verdict_no"
    /\ output[Len(output)] = "saved"
    /\ DOMAIN figure # {}

\* the positions in the output of the lines reporting a run
RunLinePositions == {k \in 1..Len(output) : output[k] \in {"run_perfect", "run_unexpected"}}

\* C19: the line printed for run i (right after the banner, in run order)
\* says Perfect entanglement exactly when that run's '01' and '10' counts
\* are both 0, and UNEXPECTED otherwise; there is exactly one such line per
\* run made; and the sample of the latest run holds the simulator's count
\* for each label it returned and 0 for each label it left out.
C19_OneReportPerRun ==
    pc # "main" =>
        /\ Cardinality(RunLinePositions) = Len(results)
        /\ \A i \in 1..Len(results) :
              /\ output[1 + i] \in {"run_perfect", "run_unexpected"}
              /\ output[1 + i] = "run_perfect"
                    <=> (results[i]["01"] = 0 /\ results[i]["10"] = 0)
        /\ Len(results) >= 1 =>
              \A k \in Labels :
                  results[Len(results)][k]
                      = IF k \in DOMAIN counts THEN counts[k] ELSE 0

\* the loop has just reported a run as UNEXPECTED on its '10' count alone,
\* the simulator having left out '01', after a run reported as perfect
C19_Witness ==
    /\ pc = "loop"
    /\ run >= 2
    /\ "01" \notin DOMAIN counts
    /\ "10" \in DOMAIN counts
    /\ counts["10"] > 0
    /\ output[1 + run] = "run_unexpected"
    /\ output[run] = "run_perfect"

\* what a call of analyze_results on the series leaves in its frame when no
\* other call runs
SoloLocals(res) == IF Len(res) = 0 THEN StatLists(res) ELSE FullLocals(res)

\* the exception of such a call
SoloError(res) == IF Len(res) = 0 THEN "ZeroDivisionError" ELSE "none"

\* the lines such a call prints
SoloOutput(res) ==
    IF Len(res) = 0 THEN <<"analysis_header">>
    ELSE <<"analysis_header", "stats_00", "stats_11", "stats_mixed",
           "what_this_shows", "validation",
           IF FullLocals(res)["within_range"] THEN "verdict_yes" ELSE "verdict_no">>

\* o is an interleaving of a and b that keeps the order of each
RECURSIVE IsShuffle(_, _, _)
IsShuffle(o, a, b) ==
    IF o = <<>> THEN a = <<>> /\ b = <<>>
    ELSE \/ a # <<>> /\ Head(o) = Head(a) /\ IsShuffle(Tail(o), Tail(a), b)
         \/ b # <<>> /\ Head(o) = Head(b) /\ IsShuffle(Tail(o), a, Tail(b))

\* C15: under every interleaving of two calls on independent series, each
\* call ends with the locals and the exception it ends with when run alone,
\* and the shared output is an interleaving of the lines each prints alone.
C15_ConcurrentCallsIndependent ==
    /\ CallOver =>
          (locals = SoloLocals(results) /\ error = SoloError(results))
    /\ other.pc \in {"returned", "raised"} =>
          (other.locals = SoloLocals(other.results)
              /\ other.error = SoloError(other.results))
    /\ (CallOver /\ other.pc \in {"returned", "raised"}) =>
          IsShuffle(output, SoloOutput(results), SoloOutput(other.results))

\* both calls are over, on different series with different verdicts, and
\* the second printed its verdict before the first printed its statistics
C15_Witness ==
    /\ pc = "returned"
    /\ other.pc = "returned"
    /\ locals["within_range"]
    /\ ~other.locals["within_range"]
    /\ Len(results) # Len(other.results)
    /\ \E i, j \in 1..Len(output) :
          i < j /\ output[i] = "verdict_no" /\ output[j] = "stats_00"

\* the verdict of a finished call, as its frame holds it
Verdict(l) == l["within_range"]

\* C18: two calls whose series agree on the '00' count of every sample
\* return the same verdict, whatever the '11', '01' and '10' counts are.
C18_VerdictDependsOn00Only ==
    (/\ pc = "returned"
     /\ other.pc = "returned"
     /\ AllOf(results, "00") = AllOf(other.results, "00"))
        => Verdict(locals) = Verdict(other.locals)

\* two calls returned True on series with the same '00' counts and different
\* '11' counts, one of them with a '11' count outside the 3-sigma interval
C18_Witness ==
    /\ pc = "returned"
    /\ other.pc = "returned"
    /\ AllOf(results, "00") = AllOf(other.results, "00")
    /\ AllOf(results, "11") # AllOf(other.results, "11")
    /\ \E i \in 1..Len(other.results) :
          ~WithinSigma(other.results[i]["11"], ThreeSigma(ExpectedStd))
    /\ Verdict(locals)
    /\ Verdict(other.locals)

\* the line was printed
Printed(line) == \E i \in 1..Len(output) : output[i] = line

\* the except clause of simulate_and_visualize took a failure of circuit.draw
DrawAbsorbed == [handler |-> "simulate_and_visualize", call |-> "circuit.draw"] \in caught

\* simulate_and_visualize is past its simulator.run, or has returned
SingleSimulated == ret = "single_circuit_demo" /\ pc \in {"s_gate", "s_plot"}
SingleReturned == ret = "single_circuit_demo" /\ pc \in {"s_lines", "s_outro", "done"}

\* after a text fallback the simulation ran once with 1000 shots, and its
\* counts are the ones returned to main
FallbackThenSimulates ==
    /\ DrawAbsorbed => (ret = "single_circuit_demo" /\ figure["ax1"] = "text")
    /\ (DrawAbsorbed /\ (SingleSimulated \/ SingleReturned)) =>
          (run = 1 /\ args["shots"] = 1000)
    /\ (DrawAbsorbed /\ SingleReturned) =>
          (Total(counts) = 1000 /\ locals["counts"] = counts)
    /\ (ret = "single_circuit_demo" /\ pc = "done") => run = 1

\* The claim as stated: one try/except in all the scripts, the one around
\* circuit.draw in simulate_and_visualize, and no other failure caught.
C16_OnlyTheDrawIsCaught ==
    /\ FallbackThenSimulates
    /\ \A c \in caught : c = [handler |-> "simulate_and_visualize", call |-> "circuit.draw"]

\* the failures each except clause of the two scripts can take
SingleHandlers == {[handler |-> "simulate_and_visualize", call |-> "circuit.draw"]}
GalleryHandlers ==
    { [handler |-> "visualize_quantum_gallery", call |-> GalleryDrawn[n]] :
        n \in 1..Len(GalleryDrawn) }
    \cup { [handler |-> "main", call |-> c] : c \in {"simulator.run", "plt.savefig"} }

\* C16 (amended): there are three except clauses.  In simulate_and_visualize
\* a failure of circuit.draw is absorbed by a text fallback, after which the
\* simulation runs exactly once with 1000 shots and its counts are returned;
\* any other failure of single_circuit_demo ends the script.  In
\* visualize_quantum_gallery a failure of one of the three draw calls is
\* absorbed by a text fallback of all three circuits and the simulations
\* still run; any later failure of visualize_quantum_gallery is caught by
\* main of visual_quantum_demo, which prints an error and ends normally.
C16_ThreeHandlers ==
    /\ FallbackThenSimulates
    /\ ret = "single_circuit_demo" =>
          /\ caught \subseteq SingleHandlers
          /\ (pc = "crashed") = (error # "none")
          /\ error \in {"none", "simulator.run", "plt.savefig"}
    /\ ret = "visual_quantum_demo" =>
          /\ caught \subseteq GalleryHandlers
          /\ pc # "crashed"
          /\ error = "none"
          /\ (\E c \in caught : c.handler = "visualize_quantum_gallery") =>
                /\ figure["ax1"] = "text" /\ figure["ax2"] = "text"
                /\ figure["ax3"] = "text"
                /\ Printed("falling_back")
                /\ pc \in {"v_run_bell", "v_gate", "v_run_grover", "v_save",
                           "v_report", "done"}
          /\ (\E c \in caught : c.handler = "main") =
                Printed("error_creating_gallery")
          /\ Printed("error_creating_gallery") => pc = "done"
          /\ pc = "done" =>
                (Printed("error_creating_gallery") # Printed("gallery_created"))
          /\ Printed("gallery_created") => run = 2

\* single_circuit_demo ran to its end after a text fallback
C16_Witness ==
    /\ ret = "single_circuit_demo"
    /\ pc = "done"
    /\ caught = SingleHandlers
    /\ figure["ax1"] = "text"
    /\ run = 1
    /\ args["shots"] = 1000
    /\ locals["counts"] = counts
    /\ Total(counts) = 1000

\* the Bell state: no amplitude on '01' and '10', probability 1/2 each on
\* '00' and '11'
BellState(p) ==
    /\ p.amp["01"] = 0
    /\ p.amp["10"] = 0
    /\ p.amp["00"] # 0
    /\ Prob(p, "00") = Prob(p, "11")
    /\ 2 * Prob(p, "00").num = Prob(p, "00").den

\* the four Bell circuits of the scripts
BellCircuits == {BellStateCircuit, BeautifulBellCircuit, BellCircuit, SimpleBellCircuit}

\* C17: H on qubit 0, CNOT from 0 to 1 and a measurement of both qubits,
\* from |00>: '01' and '10' have amplitude 0 and '00' and '11' the same
\* probability, for each of the Bell circuits the scripts build and for the
\* state the backend holds when it has executed the circuit.
C17_BellOnlyCorrelated ==
    /\ \A circ \in BellCircuits :
          /\ SelectSeq(circ, LAMBDA i : i.gate # "barrier")
                = <<Ins("h", <<0>>), Ins("cx", <<0, 1>>), Ins("measure", <<0, 1>>)>>
          /\ BellState(Prepare(circ, Psi0))
    /\ (DOMAIN psi # {} /\ psi.applied = Len(circuit)) => BellState(psi)

\* the backend has executed create_bell_state_circuit's instructions
C17_Witness ==
    /\ ret = "single_circuit_demo"
    /\ pc = "s_plot"
    /\ circuit = BellStateCircuit
    /\ psi.applied = Len(circuit)
    /\ psi.amp["00"] = 1
    /\ psi.amp["11"] = 1
    /\ psi.k = 1

\* main of single_circuit_demo has printed its verdict
SingleVerdictPrinted == ret = "single_circuit_demo" /\ pc \in {"s_outro", "done"}

\* '01' or '10' has a positive count in the simulation result
MixedMeasured == Get(counts, "01", 0) > 0 \/ Get(counts, "10", 0) > 0

\* C20: main of single_circuit_demo reports perfect entanglement iff
\* neither '01' nor '10' has a positive count, the mixed-states warning
\* otherwise, and the warning exactly when a per-state line flags a mixed
\* state.
C20_PerfectIffNoMixed ==
    SingleVerdictPrinted =>
        /\ Printed("perfect_entanglement") = ~MixedMeasured
        /\ Printed("mixed_detected") = MixedMeasured
        /\ Printed("mixed_detected") = Printed("line_mixed")

\* the warning after a result with '10' observed and '01' not
C20_Witness ==
    /\ SingleVerdictPrinted
    /\ "10" \in DOMAIN counts
    /\ "01" \notin DOMAIN counts
    /\ Printed("mixed_detected")
    /\ Printed("line_mixed")
    /\ ~Printed("perfect_entanglement")

--------------------------------------------------------------------------
(* The floats of the averages *)

\* sum(xs) / len(xs) is a true division of two ints: its value is the IEEE
\* double nearest to the quotient, ties to even.  A double is held exactly
\* as a fixed-point number i + f[1]/2^20 + f[2]/2^40 + f[3]/2^60; every
\* double between 2^-7 and 2^13 lies on this grid.

\* 2^20
Limb == 1024 * 1024

Fixed(i, f1, f2, f3) == [i |-> i, f |-> <<f1, f2, f3>>]

\* the position of the leading bit of n >= 1
RECURSIVE Log2(_)
Log2(n) == IF n <= 1 THEN 0 ELSE 1 + Log2(n \div 2)

\* the exponent of a positive value of at least 2^-20
Exponent(x) == IF x.i > 0 THEN Log2(x.i) ELSE Log2(x.f[1]) - 20

\* round to 53 significant bits, to nearest, ties to even; sticky tells
\* that the exact value is above the fixed-point one
RoundDouble(x, sticky) ==
    IF x.i = 0 /\ x.f[1] = 0
      THEN x
      ELSE LET d == 8 + Exponent(x)
               unit == Pow2(d)
               low == x.f[3] % unit
               kept == x.f[3] - low
               odd == IF unit = Limb THEN x.f[2] % 2 = 1
                                     ELSE (kept \div unit) % 2 = 1
               up == \/ 2 * low > unit
                     \/ 2 * low = unit /\ (sticky \/ odd)
               s3 == kept + (IF up THEN unit ELSE 0)
               s2 == x.f[2] + s3 \div Limb
               s1 == x.f[1] + s2 \div Limb
           IN  Fixed(x.i + s1 \div Limb, s1 % Limb, s2 % Limb, s3 % Limb)

\* the float s / n of two ints, 0 <= s, 0 < n
FDiv(s, n) ==
    LET r0 == s % n
        r1 == (r0 * Limb) % n
        r2 == (r1 * Limb) % n
        r3 == (r2 * Limb) % n
    IN  RoundDouble(Fixed(s \div n, (r0 * Limb) \div n, (r1 * Limb) \div n,
                          (r2 * Limb) \div n),
                    r3 # 0)

\* the float a + b
FAdd(a, b) ==
    LET s3 == a.f[3] + b.f[3]
        s2 == a.f[2] + b.f[2] + s3 \div Limb
        s1 == a.f[1] + b.f[1] + s2 \div Limb
    IN  RoundDouble(Fixed(a.i + b.i + s1 \div Limb, s1 % Limb, s2 % Limb, s3 % Limb),
                    FALSE)

\* float(k) of an int
FInt(k) == Fixed(k, 0, 0, 0)

\* a <= b
FLeq(a, b) ==
    LET x == <<a.i, a.f[1], a.f[2], a.f[3]>>
        y == <<b.i, b.f[1], b.f[2], b.f[3]>>
    IN  \/ x = y
        \/ \E k \in 1..4 : x[k] < y[k] /\ \A j \in 1..(k - 1) : x[j] = y[j]

\* the float an average holds
FloatOf(avg) == FDiv(avg.num, avg.den)

\* the trials of a sample, and the series whose samples all have the
\* trials of the first
SampleTotal(sample) == sample["00"] + sample["11"] + sample["01"] + sample["10"]
CommonTotal(res) == SampleTotal(res[1])
SumsToCommon(res) == \A i \in 1..Len(res) : SampleTotal(res[i]) = CommonTotal(res)

\* avg_00 + avg_11 + avg_mixed as Python adds the three floats
FloatMeanSum(l) ==
    FAdd(FAdd(FloatOf(l["avg_00"]), FloatOf(l["avg_11"])), FloatOf(l["avg_mixed"]))

\* min <= mean <= max, for the quotient and for its float
MeanBetween(lo, avg, hi) ==
    /\ lo * avg.den <= avg.num
    /\ avg.num <= hi * avg.den
    /\ FLeq(FInt(lo), FloatOf(avg))
    /\ FLeq(FloatOf(avg), FInt(hi))

\* both good labels have min <= mean <= max
GoodMeansBetween(l) ==
    /\ MeanBetween(l["min_00"], l["avg_00"], l["max_00"])
    /\ MeanBetween(l["min_11"], l["avg_11"], l["max_11"])

\* The claim as stated, on the values the validator computes: the three
\* float means add up to exactly T.
C23_FloatMeansAddUpToT ==
    AnalysisDone =>
        /\ GoodMeansBetween(locals)
        /\ SumsToCommon(results) =>
              FloatMeanSum(locals) = FInt(CommonTotal(results))

\* the three quotients add up to t
QuotientsAddUpTo(l, t) ==
    LET a == l["avg_00"]
        b == l["avg_11"]
        c == l["avg_mixed"]
    IN  a.num * b.den * c.den + b.num * a.den * c.den + c.num * a.den * b.den
            = t * a.den * b.den * c.den

\* |x - t| <= t * 2^-52
WithinRounding(x, t) ==
    \/ /\ x.i = t
       /\ x.f[1] = 0 /\ x.f[2] = 0
       /\ x.f[3] <= t * 256
    \/ /\ x.i = t - 1
       /\ x.f[1] = Limb - 1 /\ x.f[2] = Limb - 1
       /\ Limb - x.f[3] <= t * 256

\* all three averages are whole numbers
WholeMeans(l) ==
    \A m \in {"avg_00", "avg_11", "avg_mixed"} : l[m].num % l[m].den = 0

\* C23 (amended): for every non-empty series and each good label,
\* min <= mean <= max; when every sample sums to T the three means, as the
\* quotients sum/len, add up to exactly T, and the floats the validator
\* holds add up to T within T * 2^-52, exactly when the means are whole.
C23_MeansBetweenAndAddUp ==
    AnalysisDone =>
        /\ GoodMeansBetween(locals)
        /\ SumsToCommon(results) =>
              /\ QuotientsAddUpTo(locals, CommonTotal(results))
              /\ WithinRounding(FloatMeanSum(locals), CommonTotal(results))
              /\ WholeMeans(locals) =>
                    FloatMeanSum(locals) = FInt(CommonTotal(results))

\* three samples of 1000 trials with a proper range, whose float means add
\* up to 1000 - 2^-43
C23_Witness ==
    /\ pc = "returned"
    /\ Len(results) = 3
    /\ SumsToCommon(results)
    /\ CommonTotal(results) = 1000
    /\ locals["min_11"] < locals["max_11"]
    /\ QuotientsAddUpTo(locals, 1000)
    /\ FloatMeanSum(locals) = Fixed(999, Limb - 1, Limb - 1, Limb - Pow2(17))

\* the instructions of a circuit, barriers left out
Gates(circ) == SelectSeq(circ, LAMBDA ins : ins.gate # "barrier")

\* H on both qubits, the CZ oracle, the diffusion H,H,Z,Z,CZ,H,H, and the
\* measurement
GroverGates ==
    << Ins("h", <<0>>), Ins("h", <<1>>), Ins("cz", <<0, 1>>),
       Ins("h", <<0>>), Ins("h", <<1>>), Ins("z", <<0>>), Ins("z", <<1>>),
       Ins("cz", <<0, 1>>), Ins("h", <<0>>), Ins("h", <<1>>),
       Ins("measure", <<0, 1>>) >>

\* '11' is strictly more probable than every other label, which all have
\* amplitude 0
MarkedAmplified(p) ==
    \A l \in Labels \ {"11"} :
        /\ p.amp[l] = 0
        /\ Prob(p, "11").num * Prob(p, l).den > Prob(p, l).num * Prob(p, "11").den

\* C21: each of the two Grover constructors returns the gate sequence
\* H,H,CZ,H,H,Z,Z,CZ,H,H,measure apart from barriers, and once the circuit
\* has been executed from |00> the outcome '11' is strictly more probable
\* than each other outcome, which all have amplitude 0.
C21_GroverAmplifiesMarked ==
    ret \in GroverBuilders =>
        /\ pc \in {"built", "run", "measured"} => Gates(circuit) = GroverGates
        /\ pc = "measured" => MarkedAmplified(psi)

\* the Grover circuit of quantum_circuit_demo executed: all the probability
\* is on '11'
C21_Witness ==
    /\ ret = "quantum_circuit_demo.create_grover_search_circuit"
    /\ pc = "measured"
    /\ psi.applied = Len(GroverSearchCircuit)
    /\ psi.amp["11"] # 0
    /\ psi.amp["00"] = 0
    /\ Prob(psi, "11").num = Prob(psi, "11").den

\* H(0), CP(pi/2,1,0), CP(pi/4,2,0), H(1), CP(pi/2,2,1), H(2), SWAP(0,2)
QftGates ==
    << Ins("h", <<0>>), CP(1, 1, 0), CP(2, 2, 0), Ins("h", <<1>>), CP(1, 2, 1),
       Ins("h", <<2>>), Ins("swap", <<0, 2>>) >>

\* the number of instructions of a gate in a circuit
Count(circ, gate) == Len(SelectSeq(circ, LAMBDA ins : ins.gate = gate))

\* C22: for 3 qubits the loop-built QFT is the gate sequence H(0),
\* CP(pi/2,1,0), CP(pi/4,2,0), H(1), CP(pi/2,2,1), H(2), SWAP(0,2), which is
\* also the one written out in visual_quantum_demo; for n qubits the loops
\* emit n H gates, n(n-1)/2 controlled phases and floor(n/2) swaps, and
\* nothing else.
C22_QftLoopsMatchUnrolled ==
    pc = "built" =>
        /\ ret = "visual_quantum_demo.qft_circuit" => circuit = QftGates
        /\ ret \in QftBuilders =>
              LET n == locals["n_qubits"]
              IN  /\ n = 3 => circuit = QftGates
                  /\ Count(circuit, "h") = n
                  /\ 2 * Count(circuit, "cp") = n * (n - 1)
                  /\ Count(circuit, "swap") = n \div 2
                  /\ Len(circuit) = n + Count(circuit, "cp") + n \div 2

\* a loop-built QFT of n_qubits = 3 has returned the seven gates
C22_Witness ==
    /\ ret = "quantum_circuit_demo.create_quantum_fourier_transform"
    /\ pc = "built"
    /\ locals["n_qubits"] = NQubits
    /\ circuit = UnrolledQft
    /\ Len(circuit) = 7

==========================================================================
